---- MODULE Spec2Model ----
(***************************************************************************)
(* Model of src/main.py: the DeepSeek chat client.                         *)
(*                                                                         *)
(* DeepSeekChat (the foreground window) owns the conversation history, the *)
(* API-key combo box, the input box and the send button.  Each accepted    *)
(* click on the send button starts one ApiThread, which performs one HTTP  *)
(* POST and emits one of two Qt signals; the signals are delivered to      *)
(* handle_response / handle_error on the foreground thread.                *)
(*                                                                         *)
(* Text is modelled as a sequence of one-character strings so that         *)
(* str.strip() and Python's `in` on strings are computed, not assumed.     *)
(* Widget layout, the status bar and the read-only output box are not      *)
(* modelled: no handler reads them back.                                   *)
(***************************************************************************)
EXTENDS Integers, Sequences, FiniteSets

VARIABLES
    api_text,        \* self.api_combo.currentText()
    api_items,       \* the items of self.api_combo, in order
    settings,        \* the persisted "api_history" value of QSettings
    input_text,      \* self.input_text.toPlainText()
    history,         \* self.history
    send_enabled,    \* self.send_btn.isEnabled()
    dialog,          \* the modal QMessageBox currently open, or "none"
    thread,          \* self.thread: state of the latest ApiThread and its arguments
    signals,         \* Qt's queue of emitted, not yet delivered, signals
    appended         \* every message ever appended to self.history, in order

vars == <<api_text, api_items, settings, input_text, history, send_enabled,
          dialog, thread, signals, appended>>

-----------------------------------------------------------------------------
(* Bounds of the model *)

\* dispatches started in one run of the program
MaxSends == 12
\* dispatches that end in error_occurred in one run of the program
MaxFailures == 2

(* Program constants *)

\* len(self.history) > 10 / self.history[-10:]
HISTORY_LIMIT == 10
\* response.status_code == 200
HTTP_OK == 200

-----------------------------------------------------------------------------
(* Text *)

Whitespace == {" "}

RECURSIVE LStrip(_)
LStrip(s) ==
    IF s = <<>> THEN s
    ELSE IF Head(s) \in Whitespace THEN LStrip(Tail(s)) ELSE s

RECURSIVE RStrip(_)
RStrip(s) ==
    IF s = <<>> THEN s
    ELSE IF s[Len(s)] \in Whitespace THEN RStrip(SubSeq(s, 1, Len(s) - 1)) ELSE s

\* the text taken as typed, .strip() left out
StripNothing(s) == s

\* str.strip()
Strip(s) == RStrip(LStrip(s))

\* what the user can type into the API-key combo box
KeyTexts == { <<" ">>, <<" ", "k">>, <<"k">> }

\* what the user can type into the input box
InputTexts == { <<" ">>, <<" ", "x", " ">> }

\* the api_history a previous run of the program can have saved
SavedHistories == { <<>>, << <<"k">> >> }

-----------------------------------------------------------------------------
(* Session *)

UserMessage(content) == [role |-> "user", content |-> content]
AssistantMessage(content) == [role |-> "assistant", content |-> content]

\* Python's s[-n:]
LastN(s, n) == IF Len(s) > n THEN SubSeq(s, Len(s) - n + 1, Len(s)) ELSE s

\* the list's elements as a set
Range(s) == { s[i] : i \in 1..Len(s) }

-----------------------------------------------------------------------------
(* Decoded JSON values and the Python operations ApiThread.run applies to  *)
(* them.  Every value has the same four fields; t says which one is used.  *)

JNull == [t |-> "null", s |-> <<>>, l |-> <<>>, d |-> <<>>]
JNum == [t |-> "num", s |-> <<>>, l |-> <<>>, d |-> <<>>]
JStr(s) == [t |-> "str", s |-> s, l |-> <<>>, d |-> <<>>]
JList(l) == [t |-> "list", s |-> <<>>, l |-> l, d |-> <<>>]
\* d is the sequence of the object's members, each [k |-> key, v |-> value]
JObj(d) == [t |-> "obj", s |-> <<>>, l |-> <<>>, d |-> d]
Member(k, v) == [k |-> k, v |-> v]

CHOICES == <<"c", "h", "o", "i", "c", "e", "s">>
MESSAGE == <<"m", "e", "s", "s", "a", "g", "e">>
CONTENT == <<"c", "o", "n", "t", "e", "n", "t">>
HELLO == <<"h", "e", "l", "l", "o">>
SECOND == <<"o", "t", "h", "e", "r">>

\* the outcome of evaluating a Python expression: a value, or a raised
\* exception whose str() is exc
Ok(v) == [exc |-> "", v |-> v]
Raise(text) == [exc |-> text, v |-> JNull]

\* `key in x` for a str key
PyContains(x, key) ==
    CASE x.t = "obj" -> Ok(\E i \in 1..Len(x.d) : x.d[i].k = key)
      [] x.t = "list" -> Ok(\E i \in 1..Len(x.l) : x.l[i].t = "str" /\ x.l[i].s = key)
      [] x.t = "str" ->
            Ok(\E i \in 1..Len(x.s) :
                  i + Len(key) - 1 <= Len(x.s) /\ SubSeq(x.s, i, i + Len(key) - 1) = key)
      [] OTHER -> Raise("TypeError: argument is not iterable")

\* x[key] for a str key
PyGetItemStr(x, key) ==
    CASE x.t = "obj" ->
            IF \E i \in 1..Len(x.d) : x.d[i].k = key
            THEN Ok(x.d[CHOOSE i \in 1..Len(x.d) : x.d[i].k = key].v)
            ELSE Raise("KeyError: str key")
      [] x.t = "list" -> Raise("TypeError: list indices must be integers or slices, not str")
      [] x.t = "str" -> Raise("TypeError: string indices must be integers")
      [] OTHER -> Raise("TypeError: object is not subscriptable")

\* len(x)
PyLen(x) ==
    CASE x.t = "obj" -> Ok(Len(x.d))
      [] x.t = "list" -> Ok(Len(x.l))
      [] x.t = "str" -> Ok(Len(x.s))
      [] OTHER -> Raise("TypeError: object has no len()")

\* x[0]
PyGetItem0(x) ==
    CASE x.t = "obj" -> Raise("KeyError: 0")
      [] x.t = "list" ->
            IF Len(x.l) > 0 THEN Ok(x.l[1]) ELSE Raise("IndexError: list index out of range")
      [] x.t = "str" ->
            IF Len(x.s) > 0 THEN Ok(JStr(<<x.s[1]>>))
            ELSE Raise("IndexError: string index out of range")
      [] OTHER -> Raise("TypeError: object is not subscriptable")

-----------------------------------------------------------------------------
(* HTTP responses *)

SuccessJson ==
    JObj(<< Member(CHOICES,
                JList(<< JObj(<< Member(MESSAGE, JObj(<< Member(CONTENT, JStr(HELLO)) >>)) >>),
                         JObj(<< Member(MESSAGE, JObj(<< Member(CONTENT, JStr(SECOND)) >>)) >>)
                      >>)) >>)

\* the response bodies the server can send: the raw text and what
\* response.json() makes of it (undecodable: json() raises)
BodyTable == <<
    [text |-> "server error", decodes |-> FALSE, json |-> JNull],
    [text |-> "{choices: [{message: {content: hello}}, {message: {content: other}}]}",
        decodes |-> TRUE, json |-> SuccessJson],
    [text |-> "{choices: []}", decodes |-> TRUE,
        json |-> JObj(<< Member(CHOICES, JList(<<>>)) >>)],
    [text |-> "{error: 5}", decodes |-> TRUE,
        json |-> JObj(<< Member(<<"e", "r", "r", "o", "r">>, JNum) >>)],
    [text |-> "{choices: null}", decodes |-> TRUE,
        json |-> JObj(<< Member(CHOICES, JNull) >>)],
    [text |-> "{choices: [{}]}", decodes |-> TRUE,
        json |-> JObj(<< Member(CHOICES, JList(<< JObj(<<>>) >>)) >>)],
    [text |-> "{choices: [{message: {content: null}}]}", decodes |-> TRUE,
        json |-> JObj(<< Member(CHOICES,
                    JList(<< JObj(<< Member(MESSAGE, JObj(<< Member(CONTENT, JNull) >>)) >>) >>)) >>)],
    [text |-> "{choices: [{message: hello}]}", decodes |-> TRUE,
        json |-> JObj(<< Member(CHOICES,
                    JList(<< JObj(<< Member(MESSAGE, JStr(HELLO)) >>) >>)) >>)],
    [text |-> "{choices: [5]}", decodes |-> TRUE,
        json |-> JObj(<< Member(CHOICES, JList(<< JNum >>)) >>)],
    [text |-> "{choices: hello}", decodes |-> TRUE,
        json |-> JObj(<< Member(CHOICES, JStr(HELLO)) >>)],
    [text |-> "{choices: {error: 5}}", decodes |-> TRUE,
        json |-> JObj(<< Member(CHOICES, JObj(<< Member(<<"e", "r", "r", "o", "r">>, JNum) >>)) >>)],
    [text |-> "{choices: {}}", decodes |-> TRUE,
        json |-> JObj(<< Member(CHOICES, JObj(<<>>)) >>)],
    [text |-> "5", decodes |-> TRUE, json |-> JNum],
    [text |-> "[]", decodes |-> TRUE, json |-> JList(<<>>)],
    [text |-> "[choices]", decodes |-> TRUE, json |-> JList(<< JStr(CHOICES) >>)],
    [text |-> "choices", decodes |-> TRUE, json |-> JStr(CHOICES)],
    [text |-> "hello", decodes |-> TRUE, json |-> JStr(HELLO)]
>>

Bodies == DOMAIN BodyTable

\* a response object of requests, or the exception requests.post raised
\* (fault # "": its str())
Response(fault, status_code, body) ==
    [fault |-> fault, status_code |-> status_code, body |-> body]

Responses ==
    { Response(f, 0, 1) : f \in {"ConnectionError: connection refused",
                                 "ReadTimeout: read timed out"} }
    \cup { Response("", HTTP_OK, b) : b \in Bodies }
    \cup { Response("", c, b) : c \in {401, 500}, b \in {1, 2} }

\* response.text
ResponseText(response) == BodyTable[response.body].text

\* response.json()
ResponseJson(response) ==
    IF BodyTable[response.body].decodes
    THEN Ok(BodyTable[response.body].json)
    ELSE Raise("JSONDecodeError: Expecting value")


-----------------------------------------------------------------------------
(* ApiThread *)

\* response_received.emit(content), as delivered
ResponseReceived(content) ==
    [sig |-> "response_received", kind |-> "", code |-> 0, text |-> "", content |-> content]

\* error_occurred.emit(...): kind is the fixed prefix of the message
\* ("api_error": "API错误: <code> - <text>", "invalid_format": "无效的API响应格式",
\* "request_failed": "请求失败: <text>"), code and text what it carries
ErrorOccurred(kind, code, text) ==
    [sig |-> "error_occurred", kind |-> kind, code |-> code, text |-> text, content |-> <<>>]

\* pyqtSignal(str).emit(content): a non-str argument raises TypeError
EmitResponseReceived(content) ==
    IF content.t = "str" THEN Ok(ResponseReceived(content.s))
    ELSE Raise("TypeError: emit(): argument 1 has unexpected type")

\* the condition without its len(...) > 0 half
ChoicesConditionNoLen(result) == PyContains(result, CHOICES)

\* 'choices' in result and len(result['choices']) > 0
ChoicesCondition(result) ==
    LET has == PyContains(result, CHOICES)
    IN  IF has.exc # "" THEN has
        ELSE IF ~has.v THEN Ok(FALSE)
        ELSE LET choices == PyGetItemStr(result, CHOICES)
             IN  IF choices.exc # "" THEN choices
                 ELSE LET n == PyLen(choices.v)
                      IN  IF n.exc # "" THEN n ELSE Ok(n.v > 0)

\* result['choices'][0]['message']['content']
FirstContent(result) ==
    LET choices == PyGetItemStr(result, CHOICES)
    IN  IF choices.exc # "" THEN choices
        ELSE LET choice == PyGetItem0(choices.v)
             IN  IF choice.exc # "" THEN choice
                 ELSE LET message == PyGetItemStr(choice.v, MESSAGE)
                      IN  IF message.exc # "" THEN message
                          ELSE PyGetItemStr(message.v, CONTENT)

\* the try block of run: the signals it emitted, and the str() of the
\* exception that ended it ("" when it ran to its end)
RunTry(response) ==
    IF response.fault # "" THEN [emitted |-> <<>>, exc |-> response.fault]
    ELSE IF response.status_code = HTTP_OK THEN
        LET result == ResponseJson(response)
        IN  IF result.exc # "" THEN [emitted |-> <<>>, exc |-> result.exc]
            ELSE LET cond == ChoicesCondition(result.v)
                 IN  IF cond.exc # "" THEN [emitted |-> <<>>, exc |-> cond.exc]
                     ELSE IF cond.v THEN
                         LET content == FirstContent(result.v)
                         IN  IF content.exc # "" THEN [emitted |-> <<>>, exc |-> content.exc]
                             ELSE LET sent == EmitResponseReceived(content.v)
                                  IN  IF sent.exc # ""
                                      THEN [emitted |-> <<>>, exc |-> sent.exc]
                                      ELSE [emitted |-> << sent.v >>, exc |-> ""]
                     ELSE [emitted |-> << ErrorOccurred("invalid_format", 0, "") >>,
                           exc |-> ""]
    ELSE [emitted |-> << ErrorOccurred("api_error", response.status_code,
                                       ResponseText(response)) >>,
          exc |-> ""]

\* an except clause that swallows the exception
RunExceptSilent(tried) == tried.emitted

\* the except clause of run
RunExcept(tried) ==
    IF tried.exc # ""
    THEN Append(tried.emitted, ErrorOccurred("request_failed", 0, tried.exc))
    ELSE tried.emitted

\* every signal one run of ApiThread.run emits, in order
RunEmissions(response) == RunExcept(RunTry(response))

\* where the dispatch stands once run has returned
DispatchState(emitted) ==
    IF emitted = <<>> THEN "Finished"
    ELSE IF emitted[Len(emitted)].sig = "response_received" THEN "Succeeded"
    ELSE "Failed"

-----------------------------------------------------------------------------
(* DeepSeekChat *)

CountRole(s, role) == Cardinality({ i \in 1..Len(s) : s[i].role = role })

\* dispatches started so far
Sends == CountRole(appended, "user")

\* dispatches that have ended in error_occurred so far, the one in flight
\* (thread.state = "Sent") not counted
Failures == CountRole(appended, "user") - CountRole(appended, "assistant") - 1

\* send_message without its length limit
TruncateNever(h) == h

\* if len(self.history) > 10: self.history = self.history[-10:]
Truncate(h) == IF Len(h) > HISTORY_LIMIT THEN LastN(h, HISTORY_LIMIT) ELSE h

\* __init__: init_ui, load_settings, self.history = []
Init ==
    /\ settings \in SavedHistories
    /\ api_items = settings
    /\ api_text = IF settings # <<>> THEN settings[1] ELSE <<>>
    /\ input_text = <<>>
    /\ history = <<>>
    /\ send_enabled = TRUE
    /\ dialog = "none"
    /\ thread = [state |-> "none", api_key |-> <<>>, messages |-> <<>>]
    /\ signals = <<>>
    /\ appended = <<>>

\* the user edits the API-key combo box
EditApiKey ==
    /\ dialog = "none"
    /\ \E k \in KeyTexts : k # api_text /\ api_text' = k
    /\ UNCHANGED <<api_items, settings, input_text, history, send_enabled, dialog,
                   thread, signals, appended>>

\* the user edits the input box
EditInput ==
    /\ dialog = "none"
    /\ \E t \in InputTexts : t # input_text /\ input_text' = t
    /\ UNCHANGED <<api_text, api_items, settings, history, send_enabled, dialog,
                   thread, signals, appended>>

\* the user closes the open message box
DismissDialog ==
    /\ dialog # "none"
    /\ dialog' = "none"
    /\ UNCHANGED <<api_text, api_items, settings, input_text, history, send_enabled,
                   thread, signals, appended>>

\* a dispatch that leaves the send button enabled
DispatchKeepsButton(api_key, message) ==
    /\ Sends < MaxSends
    /\ api_items' = IF api_key \notin Range(api_items)
                    THEN Append(api_items, api_key) ELSE api_items
    /\ api_text' = IF api_items = <<>> THEN api_key ELSE api_text
    /\ settings' = api_items'
    /\ history' = Truncate(Append(history, UserMessage(message)))
    /\ appended' = Append(appended, UserMessage(message))
    /\ thread' = [state |-> "Sent", api_key |-> api_key, messages |-> history']
    /\ UNCHANGED <<input_text, dialog, signals, send_enabled>>

\* send_message, from the api_key check on: the part that runs when both
\* checks pass
Dispatch(api_key, message) ==
    /\ Sends < MaxSends
    /\ api_items' = IF api_key \notin Range(api_items)
                    THEN Append(api_items, api_key) ELSE api_items
    \* addItem on an empty combo box makes the new item the current one
    /\ api_text' = IF api_items = <<>> THEN api_key ELSE api_text
    /\ settings' = api_items'
    /\ history' = Truncate(Append(history, UserMessage(message)))
    /\ appended' = Append(appended, UserMessage(message))
    /\ send_enabled' = FALSE
    /\ thread' = [state |-> "Sent", api_key |-> api_key, messages |-> history']
    /\ UNCHANGED <<input_text, dialog, signals>>

\* send_btn.clicked: an enabled button of a window no message box blocks
send_message ==
    /\ send_enabled
    /\ dialog = "none"
    /\ LET api_key == Strip(api_text)
           message == Strip(input_text)
       IN  IF api_key = <<>> THEN
               /\ dialog' = "warning_api_key"
               /\ UNCHANGED <<api_text, api_items, settings, input_text, history,
                              send_enabled, thread, signals, appended>>
           ELSE IF message = <<>> THEN
               /\ dialog' = "warning_message"
               /\ UNCHANGED <<api_text, api_items, settings, input_text, history,
                              send_enabled, thread, signals, appended>>
           ELSE Dispatch(api_key, message)

\* RunEmissions, tabulated over the responses of the model
EmissionsOf == [response \in Responses |-> RunEmissions(response)]

\* ApiThread.run receiving `response`
RunWith(response) ==
    /\ thread.state = "Sent"
    /\ LET emitted == EmissionsOf[response]
       IN  /\ DispatchState(emitted) # "Succeeded" => Failures < MaxFailures
           /\ signals' = signals \o emitted
           /\ thread' = [thread EXCEPT !.state = DispatchState(emitted)]
    /\ UNCHANGED <<api_text, api_items, settings, input_text, history, send_enabled,
                   dialog, appended>>

run == \E response \in Responses : RunWith(response)

handle_response ==
    /\ signals # <<>>
    /\ Head(signals).sig = "response_received"
    /\ send_enabled' = TRUE
    /\ history' = Append(history, AssistantMessage(Head(signals).content))
    /\ appended' = Append(appended, AssistantMessage(Head(signals).content))
    /\ input_text' = <<>>
    /\ signals' = Tail(signals)
    /\ UNCHANGED <<api_text, api_items, settings, dialog, thread>>

\* a handle_error that takes the unanswered user message back out
handle_error_pops ==
    /\ signals # <<>>
    /\ Head(signals).sig = "error_occurred"
    /\ send_enabled' = TRUE
    /\ dialog' = "critical"
    /\ signals' = Tail(signals)
    /\ history' = SubSeq(history, 1, Len(history) - 1)
    /\ UNCHANGED <<api_text, api_items, settings, input_text, thread, appended>>

\* a handle_error that does not enable the send button again
handle_error_keeps_disabled ==
    /\ signals # <<>>
    /\ Head(signals).sig = "error_occurred"
    /\ dialog' = "critical"
    /\ signals' = Tail(signals)
    /\ UNCHANGED <<api_text, api_items, settings, input_text, history, thread, appended,
                   send_enabled>>

\* a handle_error that clears the input box as handle_response does
handle_error_clears_input ==
    /\ signals # <<>>
    /\ Head(signals).sig = "error_occurred"
    /\ send_enabled' = TRUE
    /\ dialog' = "critical"
    /\ signals' = Tail(signals)
    /\ input_text' = <<>>
    /\ UNCHANGED <<api_text, api_items, settings, history, thread, appended>>

handle_error ==
    /\ signals # <<>>
    /\ Head(signals).sig = "error_occurred"
    /\ send_enabled' = TRUE
    /\ dialog' = "critical"
    /\ signals' = Tail(signals)
    /\ UNCHANGED <<api_text, api_items, settings, input_text, history, thread, appended>>

Next ==
    \/ EditApiKey
    \/ EditInput
    \/ DismissDialog
    \/ send_message
    \/ run
    \/ handle_response
    \/ handle_error

Spec == Init /\ [][Next]_vars

\* the worker thread runs to its end (the POST returns or raises within its
\* timeout) and the foreground event loop delivers every queued signal
FairSpec ==
    Spec /\ WF_vars(run) /\ WF_vars(handle_response) /\ WF_vars(handle_error)


-----------------------------------------------------------------------------
(* Steps and situations the properties below speak of *)

\* a dispatch is in flight: started, and its terminal signal not yet handled
InFlight == thread.state = "Sent" \/ signals # <<>>

\* this step starts a dispatch (a new ApiThread is created and started)
DispatchStarted == thread' # thread /\ thread'.state = "Sent"

\* this step is one run of ApiThread.run
RunReturned == thread.state = "Sent" /\ thread'.state # "Sent"

\* this step delivers an error_occurred signal to the foreground
ErrorDelivered ==
    /\ signals # <<>>
    /\ Head(signals).sig = "error_occurred"
    /\ signals' = Tail(signals)

\* empty after stripping whitespace
IsBlank(s) == \A i \in 1..Len(s) : s[i] \in Whitespace

\* s without its leading and trailing whitespace, for a non-blank s
Trimmed(s) ==
    LET first == CHOOSE i \in 1..Len(s) : s[i] \notin Whitespace /\ \A j \in 1..(i - 1) : s[j] \in Whitespace
        last == CHOOSE i \in 1..Len(s) : s[i] \notin Whitespace /\ \A j \in (i + 1)..Len(s) : s[j] \in Whitespace
    IN  SubSeq(s, first, last)

-----------------------------------------------------------------------------
(* C1: the session never holds more than 10 messages, and once more than   *)
(* 10 messages have been appended it holds exactly the 10 most recently    *)
(* appended, in order.  (Fails: handle_response appends without            *)
(* truncating.)                                                            *)
C1_SessionCappedAtTen ==
    /\ Len(history) <= 10
    /\ Len(appended) > 10 =>
          history = SubSeq(appended, Len(appended) - 9, Len(appended))

(* C2: every run of ApiThread.run emits exactly one terminal signal,       *)
(* response_received or error_occurred, whatever the response or exception.*)
C2_ExactlyOneSignal ==
    [][RunReturned =>
          /\ Len(signals') = Len(signals) + 1
          /\ signals'[Len(signals')].sig \in {"response_received", "error_occurred"}
          /\ SubSeq(signals', 1, Len(signals)) = signals]_vars

\* a run whose try block raised inside emit() and whose except clause
\* emitted the one signal
C2_Witness ==
    signals = << ErrorOccurred("request_failed", 0,
                               "TypeError: emit(): argument 1 has unexpected type") >>

(* C3: whenever a dispatch has been started and not yet returned, the      *)
(* message sequence handed to the dispatcher is the full current session   *)
(* transcript and holds between 1 and 10 messages.                         *)
C3_PayloadIsTranscript ==
    thread.state = "Sent" =>
        /\ thread.messages = history
        /\ Len(thread.messages) >= 1
        /\ Len(thread.messages) <= 10

\* a dispatch of a full window after a failed send and more than 10 appends
C3_Witness ==
    /\ thread.state = "Sent"
    /\ Len(thread.messages) = 10
    /\ Len(appended) > 11
    /\ Failures >= 1

(* C4: handling a failure outcome leaves the session as it is: nothing is  *)
(* appended, removed or reordered.                                         *)
C4_FailureLeavesSession ==
    [][ErrorDelivered => history' = history /\ appended' = appended]_vars

\* a failure has been handled with a non-empty session
C4_Witness ==
    /\ dialog = "critical"
    /\ thread.state = "Failed"
    /\ signals = <<>>
    /\ Len(history) >= 2

(* C5: at most one dispatch is in flight: the send button is disabled from *)
(* the start of a dispatch until its outcome is handled, at most one       *)
(* signal is pending, and no dispatch starts while one is in flight.       *)
C5_OneDispatchInFlight ==
    /\ [](InFlight => ~send_enabled)
    /\ [](Len(signals) <= 1 /\ (signals # <<>> => thread.state # "Sent"))
    /\ [][DispatchStarted => ~InFlight /\ send_enabled]_vars

\* the user edits both boxes to sendable values while a later dispatch is
\* in flight
C5_Witness ==
    /\ thread.state = "Sent"
    /\ ~send_enabled
    /\ Sends >= 2
    /\ ~IsBlank(input_text)
    /\ ~IsBlank(api_text)

(* C6: a dispatch moves Sent -> Succeeded or Failed only, a new one starts *)
(* only from a click on the enabled send button, and every started         *)
(* dispatch eventually has its outcome handled with the send button        *)
(* enabled again.                                                          *)
C6_DispatchLifecycle ==
    /\ [][thread'.state # thread.state =>
             \/ thread'.state = "Sent" /\ send_enabled /\ dialog = "none" /\ signals = <<>>
             \/ thread.state = "Sent" /\ thread'.state \in {"Succeeded", "Failed"}]_vars
    /\ (thread.state = "Sent") ~>
          (thread.state \in {"Succeeded", "Failed"} /\ signals = <<>> /\ send_enabled)

\* a failed dispatch has been handled and the button is enabled again
C6_Witness ==
    /\ thread.state = "Failed"
    /\ signals = <<>>
    /\ send_enabled
    /\ Sends >= 2

(* C7: a click on send with a blank API key or a blank message starts no   *)
(* dispatch and leaves the session, the button and the stored key history  *)
(* unchanged.                                                              *)
C7_BlankRejected ==
    [][send_message /\ (IsBlank(api_text) \/ IsBlank(input_text)) =>
          UNCHANGED <<history, appended, send_enabled, api_items, settings,
                      thread, signals>>]_vars

\* a click with a new key and a blank message has been rejected
C7_Witness ==
    /\ dialog = "warning_message"
    /\ ~IsBlank(api_text)
    /\ api_items = <<>>
    /\ settings = <<>>
    /\ thread.state = "none"


-----------------------------------------------------------------------------
(* The shape of a decoded body, read off the JSON itself *)

HasMember(j, key) == j.t = "obj" /\ \E i \in 1..Len(j.d) : j.d[i].k = key
MemberValue(j, key) == j.d[CHOOSE i \in 1..Len(j.d) : j.d[i].k = key].v

\* the body has a "choices" member that is a non-empty list
HasNonEmptyChoicesList(j) ==
    /\ HasMember(j, CHOICES)
    /\ MemberValue(j, CHOICES).t = "list"
    /\ MemberValue(j, CHOICES).l # <<>>

\* the body is an object with no "choices" member or an empty "choices" list
LacksChoices(j) ==
    /\ j.t = "obj"
    /\ \/ ~HasMember(j, CHOICES)
       \/ MemberValue(j, CHOICES).t = "list" /\ MemberValue(j, CHOICES).l = <<>>

\* the first choice is an object whose "message" is an object with a string
\* "content"
FirstChoiceHasContent(j) ==
    LET first == MemberValue(j, CHOICES).l[1]
    IN  /\ HasMember(first, MESSAGE)
        /\ HasMember(MemberValue(first, MESSAGE), CONTENT)
        /\ MemberValue(MemberValue(first, MESSAGE), CONTENT).t = "str"

FirstChoiceContent(j) ==
    MemberValue(MemberValue(MemberValue(j, CHOICES).l[1], MESSAGE), CONTENT).s

IsRequestFailed(e) ==
    e.sig = "error_occurred" /\ e.kind = "request_failed" /\ e.text # ""

\* the outcome the four disjoint cases of C8 give for response r
C8_Claimed(r, e) ==
    IF r.fault # "" THEN e = ErrorOccurred("request_failed", 0, r.fault)
    ELSE IF r.status_code # 200
        THEN e = ErrorOccurred("api_error", r.status_code, BodyTable[r.body].text)
    ELSE IF ~BodyTable[r.body].decodes THEN IsRequestFailed(e)
    ELSE IF HasNonEmptyChoicesList(BodyTable[r.body].json)
        THEN /\ e.sig = "response_received"
             /\ FirstChoiceHasContent(BodyTable[r.body].json) =>
                   e.content = FirstChoiceContent(BodyTable[r.body].json)
    ELSE e = ErrorOccurred("invalid_format", 0, "")

\* the same with the status-200 cases as the code decides them
C8_Actual(r, e) ==
    LET j == BodyTable[r.body].json
    IN  IF r.fault # "" THEN e = ErrorOccurred("request_failed", 0, r.fault)
        ELSE IF r.status_code # 200
            THEN e = ErrorOccurred("api_error", r.status_code, BodyTable[r.body].text)
        ELSE IF ~BodyTable[r.body].decodes THEN IsRequestFailed(e)
        ELSE IF LacksChoices(j) THEN e = ErrorOccurred("invalid_format", 0, "")
        ELSE IF HasNonEmptyChoicesList(j)
            THEN IF FirstChoiceHasContent(j)
                 THEN e = ResponseReceived(FirstChoiceContent(j))
                 ELSE IsRequestFailed(e)
        ELSE /\ e.sig = "error_occurred"
             /\ e.kind \in {"invalid_format", "request_failed"}

C9_TwelveRoundTrips ==
    (/\ Len(appended) = 24
     /\ \A i \in 1..Len(appended) :
           appended[i].role = IF i % 2 = 1 THEN "user" ELSE "assistant"
     /\ thread.state = "Succeeded"
     /\ signals = <<>>)
    => /\ Len(history) = 10
       /\ history = SubSeq(appended, 15, 24)

\* a is the end of b
IsSuffix(a, b) == Len(a) <= Len(b) /\ a = SubSeq(b, Len(b) - Len(a) + 1, Len(b))

(* C10: the user message of a failed send stays in the session: handling   *)
(* the failure changes neither the session nor the input text, the session *)
(* then equals the one before the send plus the user message (cut to the   *)
(* last 10), which was the payload, and a message leaves the session only  *)
(* from the front, when a send cuts the session to 10.                     *)
C10_UnansweredMessageStays ==
    /\ [][ErrorDelivered => history' = history /\ input_text' = input_text]_vars
    /\ [][DispatchStarted =>
             LET sent == Append(history, UserMessage(Trimmed(input_text)))
             IN  /\ history' = IF Len(sent) > 10
                               THEN SubSeq(sent, Len(sent) - 9, Len(sent)) ELSE sent
                 /\ thread'.messages = history']_vars
    /\ [][history' # history =>
             /\ history' # <<>>
             /\ IsSuffix(SubSeq(history', 1, Len(history') - 1), history)
             /\ Len(history') <= Len(history) => Len(history') = 10 /\ DispatchStarted]_vars
    /\ [](thread.state = "Failed" /\ signals = <<>> =>
             /\ history = thread.messages
             /\ history[Len(history)].role = "user")

\* the same input sent again after a failed send: the payload ends in two
\* user messages with the same content
C10_Witness ==
    /\ thread.state = "Sent"
    /\ Len(thread.messages) >= 2
    /\ LET n == Len(thread.messages)
       IN  /\ thread.messages[n].role = "user"
           /\ thread.messages[n - 1] = thread.messages[n]
           /\ ~IsBlank(input_text)
           /\ thread.messages[n].content = Trimmed(input_text)


====
